---- MODULE Spec2Model ----
(***************************************************************************)
(* DockerSwarmOperator (providers/docker/operators/docker_swarm.py):       *)
(* one operator instance, the swarm it talks to through self.cli, and the  *)
(* run / poll / harvest / retrieve / remove sequence of _run_service.      *)
(* Every orchestrator call of the operator is one step, so that the swarm  *)
(* may move between two calls.                                             *)
(***************************************************************************)
EXTENDS Integers, Sequences, FiniteSets, TLC

VARIABLES
    pc,                \* position of the operator's thread of control
    caller,            \* who invoked the method that is running
    auto_remove,       \* self.auto_remove
    enable_logging,    \* self.enable_logging
    retrieve_output,   \* self.retrieve_output
    logging_driver,    \* self.logging_driver
    log_driver_config, \* self.log_driver_config
    args,              \* self.args
    service,           \* self.service
    tasks,             \* self.tasks
    containers,        \* self.containers
    last_line_logged,  \* local of _stream_logs_to_output
    last_timestamp,    \* local of _stream_logs_to_output
    file_contents,     \* local of _attempt_to_retrieve_results
    idx,               \* position of the running for loop
    status,            \* value returned by the latest _service_status()
    result,            \* how the latest invocation on the operator ended
    calls,             \* number of calls made to each orchestrator operation
    logged,            \* messages passed to self.log.info by stream_new_logs
    svc_tasks,         \* swarm: task states of the service, in list order
    svc_logs,          \* swarm: log lines written by the service
    fs_pc,             \* CloudFirestoreHook: position of export_documents
    operation,         \* Firestore: the long-running operation
    operation_response, \* local of _wait_for_operation_to_complete
    fs_wait,           \* how _wait_for_operation_to_complete ended
    fs_result,         \* how export_documents ended
    ol_pc,             \* openlineage utils: position of the function called
    doc,               \* the string s handed to _truncate_string_to_byte_size
    max_size,          \* _truncate_string_to_byte_size: the limit in bytes
    truncated,         \* _truncate_string_to_byte_size: what it returned
    custom_run_facets, \* conf.custom_run_facets(): the configured functions
    custom_facets,     \* local of get_user_provided_run_facets
    facet_i,           \* position of its for loop
    run_facets,        \* what get_user_provided_run_facets returned
    f_does,            \* print_warning: what the wrapped function f does
    wrapper_out,       \* print_warning: how the latest call of wrapper ended
    warnings,          \* print_warning: number of log.warning calls
    casts,             \* InfoJsonEncodable: names of the class's casts
    renames,           \* InfoJsonEncodable: the class's renames, in dict order
    includes,          \* InfoJsonEncodable: the class's includes
    excludes,          \* InfoJsonEncodable: the class's excludes
    obj,               \* InfoJsonEncodable: the object being encoded
    inst,              \* InfoJsonEncodable: attributes set on the instance
    fields,            \* InfoJsonEncodable: self._fields
    enc_out            \* InfoJsonEncodable: how construction ended

vars == <<pc, caller, auto_remove, enable_logging, retrieve_output,
          logging_driver, log_driver_config, args, service, tasks, containers,
          last_line_logged, last_timestamp, file_contents, idx, status,
          result, calls, logged, svc_tasks, svc_logs,
          fs_pc, operation, operation_response, fs_wait, fs_result,
          ol_pc, doc, max_size, truncated,
          custom_run_facets, custom_facets, facet_i, run_facets,
          f_does, wrapper_out, warnings,
          casts, renames, includes, excludes, obj, inst, fields, enc_out>>

dockerVars == <<pc, caller, auto_remove, enable_logging, retrieve_output,
                logging_driver, log_driver_config, args, service, tasks,
                containers, last_line_logged, last_timestamp, file_contents,
                idx, status, result, calls, logged, svc_tasks, svc_logs>>
fsVars == <<fs_pc, operation, operation_response, fs_wait, fs_result>>
truncVars == <<doc, max_size, truncated>>
facetVars == <<custom_run_facets, custom_facets, facet_i, run_facets>>
warnVars == <<f_does, wrapper_out, warnings>>
clsVars == <<casts, renames, includes, excludes, obj>>
encVars == <<clsVars, inst, fields, enc_out>>
olVars == <<ol_pc, truncVars, facetVars, warnVars, encVars>>

cfgVars == <<auto_remove, enable_logging, retrieve_output, logging_driver,
             log_driver_config, args>>
streamVars == <<last_line_logged, last_timestamp, logged>>
swarmVars == <<svc_tasks, svc_logs>>

(***************************************************************************)
(* Bounds of the model.                                                    *)
(***************************************************************************)
MaxTasks == 2
MaxLogLines == 2
MaxLogged == 3
MaxArgLen == 3
MaxDocLen == 3
MaxSize == 7
MaxFuncs == 3
MaxWarnings == 2

(***************************************************************************)
(* Values.                                                                 *)
(***************************************************************************)
None == "None"
ServiceID == "svc"

AutoRemoveModes == {"never", "success", "force"}

\* values handed to the logging_driver parameter: None, the empty string,
\* the two supported drivers, and two that are not supported ("json-path"
\* is the one the type annotation of __init__ names).
LoggingDriverInputs == {None, "", "json-file", "gelf", "json-path", "syslog"}

supported_logging_drivers_annotated == {"json-path", "gelf"}

supported_logging_drivers == {"json-file", "gelf"}

\* Python truthiness of the logging_driver argument (str | None)
Truthy(v) == v # None /\ v # ""

\* the states a swarm task is reported in
TaskStates == {"pending", "running", "complete", "failed", "shutdown",
               "rejected", "orphaned", "remove", "removed"}

TerminatedStates_removed == {"complete", "failed", "shutdown", "rejected", "orphaned", "removed"}

\* the list literal of _has_service_terminated
TerminatedStates == {"complete", "failed", "shutdown", "rejected", "orphaned", "remove"}

\* states the swarm never leaves
SwarmFinalStates == TaskStates \ {"pending", "running"}

\* the final states followed for the tasks after the first one, whose State
\* the operator never reads
ReplicaFinalStates == {"complete", "failed"}

Operations == {"create", "listTasks", "inspectContainer", "streamLogs",
               "copyFromContainer", "removeService"}

NoCalls == [o \in Operations |-> 0]

\* calls[op] is 0 (never called), 1 (called once) or 2 (called more than once)
Called(op) == [calls EXCEPT ![op] = IF @ = 0 THEN 1 ELSE 2]

\* sub-microsecond units per microsecond: the digits \d+ after (\.\d{6})
NanosPerMicro == 1000

\* \d{6,} and (\.\d{6}): the fractional digits of a microsecond
MicroDigits == 6

\* the fractional digits of the timestamps the swarm writes (nanoseconds)
NanoDigits == 9

\* the text of a log line: whether it starts with a timestamp
\* YYYY-mm-ddTHH:MM:SS.<frac>Z and a blank, the digits <frac> of that
\* timestamp, and the rest of the line.  All timestamps lie in the second
\* that begins at the epoch, so a time is told by its fraction alone.
Line(stamped, frac, msg) == [stamped |-> stamped, frac |-> frac, msg |-> msg]

\* the lines of a run: one with nanoseconds, and one without a timestamp
LogLines == { Line(TRUE, <<0, 0, 0, 0, 0, 1, 5, 0, 0>>, "a"),
              Line(FALSE, <<>>, "x") }

\* last_line_logged = "": no line yet; also the text of an empty line
NoLine == Line(FALSE, <<>>, "")

\* the lines of a run that is followed for its log alone: fractions of
\* exactly six, of seven and of nine digits, one of three digits, an empty
\* line and a line without a timestamp
StreamLines == LogLines \cup
               { Line(TRUE, <<0, 0, 0, 0, 0, 1>>, "b"),
                 Line(TRUE, <<0, 0, 0, 0, 0, 1, 9, 9, 9>>, "c"),
                 Line(TRUE, <<0, 0, 0, 0, 0, 2, 0>>, "e"),
                 Line(TRUE, <<0, 0, 0>>, "d"),
                 NoLine }

\* the number a sequence of decimal digits writes
RECURSIVE DigitsValue(_)
DigitsValue(ds) ==
    IF ds = <<>> THEN 0
    ELSE 10 * DigitsValue(SubSeq(ds, 1, Len(ds) - 1)) + ds[Len(ds)]

RECURSIVE Pow10(_)
Pow10(n) == IF n = 0 THEN 1 ELSE 10 * Pow10(n - 1)

\* a fraction of at most width digits, in units of 10^-width seconds
Fraction(ds, width) == DigitsValue(ds) * Pow10(width - Len(ds))

NoReturn == [kind |-> "none", val |-> <<>>]
ReturnNone == [kind |-> "None", val |-> <<>>]

NoResult == [op |-> "none", exc |-> "none", ret |-> NoReturn]
Raised(op, e) == [op |-> op, exc |-> e, ret |-> NoReturn]
Returned(op, r) == [op |-> op, exc |-> "none", ret |-> r]

(***************************************************************************)
(* CloudFirestoreHook (providers/google/firebase/hooks/firestore.py):      *)
(* values of the long-running operation and of the hook's calls.           *)
(***************************************************************************)
\* a field of the operation resource that is not there
Absent == "absent"

\* the operation resource: "done" is absent, false or true; "error" is
\* absent, an empty Status or a Status with a code; "response" is absent or
\* the export response
DoneValues == {Absent, "false", "true"}
ErrorValues == {Absent, "empty", "status"}
ResponseValues == {Absent, "response"}

Operation(d, e, r) == [done |-> d, error |-> e, response |-> r]

NoOperation == Operation(Absent, Absent, Absent)

FsNoResult == [op |-> "none", exc |-> "none", ret |-> "none"]
FsRaised(op, e) == [op |-> op, exc |-> e, ret |-> "none"]
FsReturned(op, r) == [op |-> op, exc |-> "none", ret |-> r]

\* no export has been started
FsInit ==
    /\ fs_pc = "idle"
    /\ operation = NoOperation
    /\ operation_response = NoOperation
    /\ fs_wait = FsNoResult
    /\ fs_result = FsNoResult

(***************************************************************************)
(* providers/openlineage/utils/utils.py: values of the functions' calls.   *)
(***************************************************************************)
\* no string has been truncated
NotTruncated == [done |-> FALSE, val |-> <<>>]

TruncInit ==
    /\ doc = <<>>
    /\ max_size = 0
    /\ truncated = NotTruncated

\* the keys a custom facet function may return
FacetKeys == {"k1", "k2"}

\* a dict of facets: for each key the position in the configured list of
\* the function whose value it holds, 0 when the key is not in the dict
NoFacets == [k \in FacetKeys |-> 0]

FacetsNotReturned == [done |-> FALSE, exc |-> "none", val |-> NoFacets]

FacetInit ==
    /\ custom_run_facets = <<>>
    /\ custom_facets = NoFacets
    /\ facet_i = 0
    /\ run_facets = FacetsNotReturned

\* a function that returns a value, and one that raises an exception
Returns(v) == [kind |-> "return", val |-> v]
Raises(e) == [kind |-> "raise", val |-> e]

WrapperNotCalled == [done |-> FALSE, exc |-> "none", ret |-> "none"]

WarnInit ==
    /\ f_does = Returns(None)
    /\ wrapper_out = WrapperNotCalled
    /\ warnings = 0

\* no attribute is set on a new instance, and self._fields is empty
NoAttrs == [x \in {} |-> None]
NotEncoded == [done |-> FALSE, exc |-> "none", dict |-> NoAttrs]

\* the InfoJsonEncodable base class, and no object being encoded
EncInit ==
    /\ casts = {}
    /\ renames = <<>>
    /\ includes = {}
    /\ excludes = {}
    /\ obj = [kind |-> "dict", attrs |-> {}]
    /\ inst = NoAttrs
    /\ fields = {}
    /\ enc_out = NotEncoded

\* no function of utils.py has been called
OlInit ==
    /\ ol_pc = "idle"
    /\ TruncInit
    /\ FacetInit
    /\ WarnInit
    /\ EncInit

(***************************************************************************)
(* Construction.                                                           *)
(***************************************************************************)
\* the fields before __init__ has run
OperatorNew ==
    /\ pc = "new"
    /\ caller = "none"
    /\ auto_remove = "never"
    /\ enable_logging = TRUE
    /\ retrieve_output = FALSE
    /\ logging_driver = None
    /\ log_driver_config = None
    /\ args = ReturnNone
    /\ service = None
    /\ tasks = <<>>
    /\ containers = <<>>
    /\ last_line_logged = NoLine
    /\ last_timestamp = 0
    /\ file_contents = <<>>
    /\ idx = 0
    /\ status = None
    /\ result = NoResult
    /\ calls = NoCalls
    /\ logged = <<>>
    /\ svc_tasks = <<>>
    /\ svc_logs = <<>>

\* nothing has been constructed or called yet
InitNew == OperatorNew /\ FsInit /\ OlInit

\* the operator as __init__ leaves it when no logging_driver is given
Init ==
    /\ pc = "ready"
    /\ caller = "none"
    /\ auto_remove \in AutoRemoveModes
    /\ enable_logging \in BOOLEAN
    /\ retrieve_output \in BOOLEAN
    /\ logging_driver = None
    /\ log_driver_config = None
    /\ args = ReturnNone
    /\ service = None
    /\ tasks = <<>>
    /\ containers = <<>>
    /\ last_line_logged = NoLine
    /\ last_timestamp = 0
    /\ file_contents = <<>>
    /\ idx = 0
    /\ status = None
    /\ result = Returned("__init__", ReturnNone)
    /\ calls = NoCalls
    /\ logged = <<>>
    /\ svc_tasks = <<>>
    /\ svc_logs = <<>>
    /\ FsInit
    /\ OlInit

\* DockerSwarmOperator.__init__
DriverRejected(ld) == Truthy(ld) /\ ld \notin supported_logging_drivers

init(ar, el, ro, ld) ==
    /\ pc = "new"
    /\ auto_remove' = ar
    /\ enable_logging' = el
    /\ retrieve_output' = ro
    /\ logging_driver' = ld
    /\ IF DriverRejected(ld)
       THEN /\ pc' = "init_failed"
            /\ result' = Raised("__init__", "AirflowException")
            /\ UNCHANGED log_driver_config
       ELSE /\ pc' = "ready"
            /\ result' = Returned("__init__", ReturnNone)
            /\ log_driver_config' = IF Truthy(ld) THEN ld ELSE None
    /\ UNCHANGED <<args, caller, service, tasks, containers, file_contents,
                   idx, status, calls>>
    /\ UNCHANGED streamVars
    /\ UNCHANGED swarmVars
    /\ UNCHANGED fsVars
    /\ UNCHANGED olVars

(***************************************************************************)
(* The swarm: what self.cli answers.                                       *)
(***************************************************************************)
\* cli.tasks(filters={"service": ID}): task i runs in container i once it
\* has left "pending"
TaskRecord(i) == [State |-> svc_tasks[i],
                  ContainerID |-> IF svc_tasks[i] = "pending" THEN 0 ELSE i]

cli_tasks == [i \in 1..Len(svc_tasks) |-> TaskRecord(i)]

\* cli.service_logs(ID, since=since, timestamps=True): the lines written
\* at or after since (in microseconds), in the order they were written
AtOrAfter(since, entry) == entry.at >= since * NanosPerMicro

Lines(entries) == [i \in 1..Len(entries) |-> entries[i].line]

cli_service_logs(since) ==
    Lines(SelectSeq(svc_logs, LAMBDA e : AtOrAfter(since, e)))

\* cli.inspect_container(container_id)
cli_inspect_container(cid) == [Id |-> cid]

\* the swarm is followed while execute() is in progress
Running == caller = "execute"

\* the log is followed as long as the operator may still fetch it
LogsRead == enable_logging /\ pc \in {"wait_tasks", "stream_logs", "stream_poll",
                                      "stream_fetch"}

\* the swarm schedules the tasks of the new service
SwarmSchedule(n) ==
    /\ Running
    /\ service # None
    /\ svc_tasks = <<>>
    /\ svc_tasks' = [i \in 1..n |-> "pending"]
    /\ UNCHANGED <<pc, caller, service, tasks, containers, file_contents, idx,
                   status, result, calls, svc_logs>>
    /\ UNCHANGED cfgVars
    /\ UNCHANGED streamVars
    /\ UNCHANGED fsVars
    /\ UNCHANGED olVars

\* a task starts, or a running task ends in a final state
SwarmTaskStep(i, s) ==
    /\ Running
    /\ i \in 1..Len(svc_tasks)
    /\ \/ svc_tasks[i] = "pending" /\ s = "running"
       \/ svc_tasks[i] = "running" /\ s \in SwarmFinalStates
                                   /\ (i > 1 => s \in ReplicaFinalStates)
    /\ svc_tasks' = [svc_tasks EXCEPT ![i] = s]
    /\ UNCHANGED <<pc, caller, service, tasks, containers, file_contents, idx,
                   status, result, calls, svc_logs>>
    /\ UNCHANGED cfgVars
    /\ UNCHANGED streamVars
    /\ UNCHANGED fsVars
    /\ UNCHANGED olVars

\* the time of the newest line of the log, in nanoseconds
LastWritten == IF svc_logs = <<>> THEN 0 ELSE svc_logs[Len(svc_logs)].at

\* the time a line is written at: the one its timestamp tells, and for a
\* line without a timestamp the time of the line before it
WrittenAt(l) == IF l.stamped THEN Fraction(l.frac, NanoDigits) ELSE LastWritten

\* a running task writes a log line; the swarm keeps lines in time order
SwarmWriteLog(l) ==
    /\ Running
    /\ LogsRead
    /\ \E i \in 1..Len(svc_tasks) : svc_tasks[i] = "running"
    /\ Len(svc_logs) < MaxLogLines
    /\ LastWritten <= WrittenAt(l)
    /\ svc_logs' = Append(svc_logs, [at |-> WrittenAt(l), line |-> l])
    /\ UNCHANGED <<pc, caller, service, tasks, containers, file_contents, idx,
                   status, result, calls, svc_tasks>>
    /\ UNCHANGED cfgVars
    /\ UNCHANGED streamVars
    /\ UNCHANGED fsVars
    /\ UNCHANGED olVars

(***************************************************************************)
(* Leaving a method.                                                       *)
(***************************************************************************)
Finish(r) ==
    /\ pc' = "done"
    /\ caller' = "none"
    /\ result' = r

\* a helper method called on its own returns to the idle operator
FinishDirect(r) ==
    /\ pc' = "ready"
    /\ caller' = "none"
    /\ result' = r

Leave(r) == IF caller = "execute" THEN Finish(r) ELSE FinishDirect(r)

(***************************************************************************)
(* DockerSwarmOperator._service_status / _has_service_terminated           *)
(***************************************************************************)
ServiceMissing_unchecked == FALSE

\* the guard of _service_status, _stream_logs_to_output and of the removal
ServiceMissing == service = None

service_status == cli_tasks[1].State

has_service_terminated_complete(s) == s = "complete"

has_service_terminated(s) == s \in TerminatedStates

(***************************************************************************)
(* DockerSwarmOperator.execute / _run_service                              *)
(***************************************************************************)
create_service_unchecked(h) ==
    /\ pc = "ready"
    /\ calls' = Called("create")
    /\ service' = h
    /\ pc' = "wait_tasks"
    /\ caller' = "execute"
    /\ result' = NoResult
    /\ UNCHANGED <<tasks, containers, file_contents, idx, status>>
    /\ UNCHANGED cfgVars
    /\ UNCHANGED streamVars
    /\ UNCHANGED swarmVars
    /\ UNCHANGED fsVars
    /\ UNCHANGED olVars

\* lines 173-204: create the service
create_service(h) ==
    /\ pc = "ready"
    /\ calls' = Called("create")
    /\ service' = h
    /\ IF h = None
       THEN Finish(Raised("execute", "RuntimeError"))
       ELSE /\ pc' = "wait_tasks"
            /\ caller' = "execute"
            /\ result' = NoResult
    /\ UNCHANGED <<tasks, containers, file_contents, idx, status>>
    /\ UNCHANGED cfgVars
    /\ UNCHANGED streamVars
    /\ UNCHANGED swarmVars
    /\ UNCHANGED fsVars
    /\ UNCHANGED olVars

\* lines 207-211: wait for the service to start the task
wait_tasks ==
    /\ pc = "wait_tasks"
    /\ calls' = Called("listTasks")
    /\ pc' = IF cli_tasks = <<>> THEN "wait_tasks"
             ELSE IF enable_logging THEN "stream_logs" ELSE "wait_terminated"
    /\ UNCHANGED <<caller, service, tasks, containers, file_contents, idx,
                   status, result>>
    /\ UNCHANGED cfgVars
    /\ UNCHANGED streamVars
    /\ UNCHANGED swarmVars
    /\ UNCHANGED fsVars
    /\ UNCHANGED olVars

\* lines 247-250: entry of _stream_logs_to_output
stream_logs_to_output ==
    /\ pc = "stream_logs"
    /\ IF ServiceMissing
       THEN /\ Leave(Raised(caller, "RuntimeError"))
            /\ UNCHANGED <<last_line_logged, last_timestamp>>
       ELSE /\ pc' = "stream_poll"
            /\ last_line_logged' = NoLine
            /\ last_timestamp' = 0
            /\ UNCHANGED <<caller, result>>
    /\ UNCHANGED <<service, tasks, containers, file_contents, idx, status,
                   calls, logged>>
    /\ UNCHANGED cfgVars
    /\ UNCHANGED swarmVars
    /\ UNCHANGED fsVars
    /\ UNCHANGED olVars

\* line 281: while not self._has_service_terminated()
stream_poll ==
    /\ pc = "stream_poll"
    /\ calls' = Called("listTasks")
    /\ status' = service_status
    /\ IF has_service_terminated(service_status)
       THEN IF caller = "execute"
            THEN pc' = "wait_terminated" /\ UNCHANGED <<caller, result>>
            ELSE FinishDirect(Returned(caller, ReturnNone))
       ELSE pc' = "stream_fetch" /\ UNCHANGED <<caller, result>>
    /\ UNCHANGED <<service, tasks, containers, file_contents, idx>>
    /\ UNCHANGED cfgVars
    /\ UNCHANGED streamVars
    /\ UNCHANGED swarmVars
    /\ UNCHANGED fsVars
    /\ UNCHANGED olVars

\* line 263-264: drop everything up to and including last_line_logged
RECURSIVE IndexOf(_, _, _)
IndexOf(seq, x, i) ==
    IF i > Len(seq) THEN 0
    ELSE IF seq[i] = x THEN i ELSE IndexOf(seq, x, i + 1)

Deduplicate_kept(logs, last) == logs

Deduplicate(logs, last) ==
    IF IndexOf(logs, last, 1) # 0
    THEN SubSeq(logs, IndexOf(logs, last, 1) + 1, Len(logs))
    ELSE logs

\* line 266: re.match wants the timestamp with six digits or more
re_match(line) == line.stamped /\ Len(line.frac) >= MicroDigits

\* line 266: the first line of the batch that re.match does not match
RECURSIVE FirstUnmatched(_, _)
FirstUnmatched(logs, i) ==
    IF i > Len(logs) THEN 0
    ELSE IF ~re_match(logs[i]) THEN i ELSE FirstUnmatched(logs, i + 1)

Messages(logs) == [i \in 1..Len(logs) |-> logs[i].msg]

re_sub_kept(frac) == frac

\* line 276: re.sub drops the digits after the sixth when there are any
re_sub(frac) ==
    IF Len(frac) > MicroDigits THEN SubSeq(frac, 1, MicroDigits) ELSE frac

\* line 277: %f reads one to six digits
StrptimeFails(frac) == Len(frac) \notin 1..MicroDigits

\* lines 277-278: the time the floored timestamp tells, in microseconds
strptime(frac) == Fraction(frac, MicroDigits)

\* lines 275-278: floor nanoseconds to microseconds
FloorToMicro(frac) == strptime(re_sub(frac))

NoNewLines_reset(last, since) == <<NoLine, 0>>

\* lines 270-271: return last_line_logged, since
NoNewLines(last, since) == <<last, since>>

\* lines 252-279 and 282-283: sleep, then one stream_new_logs
stream_new_logs ==
    /\ pc = "stream_fetch"
    /\ Len(logged) < MaxLogged
    /\ calls' = Called("streamLogs")
    /\ LET logs == Deduplicate(cli_service_logs(last_timestamp), last_line_logged)
           bad == FirstUnmatched(logs, 1)
       IN IF bad # 0
          THEN /\ logged' = logged \o Messages(SubSeq(logs, 1, bad - 1))
               /\ Leave(Raised(caller, "AttributeError"))
               /\ UNCHANGED <<last_line_logged, last_timestamp>>
          ELSE /\ logged' = logged \o Messages(logs)
               /\ IF Len(logs) = 0
                  THEN /\ pc' = "stream_poll"
                       /\ UNCHANGED <<caller, result>>
                       /\ last_line_logged' =
                              NoNewLines(last_line_logged, last_timestamp)[1]
                       /\ last_timestamp' =
                              NoNewLines(last_line_logged, last_timestamp)[2]
                  ELSE IF StrptimeFails(re_sub(logs[Len(logs)].frac))
                       THEN /\ Leave(Raised(caller, "ValueError"))
                            /\ UNCHANGED <<last_line_logged, last_timestamp>>
                       ELSE /\ pc' = "stream_poll"
                            /\ UNCHANGED <<caller, result>>
                            /\ last_line_logged' = logs[Len(logs)]
                            /\ last_timestamp' = FloorToMicro(logs[Len(logs)].frac)
    /\ UNCHANGED <<service, tasks, containers, file_contents, idx, status>>
    /\ UNCHANGED cfgVars
    /\ UNCHANGED swarmVars
    /\ UNCHANGED fsVars
    /\ UNCHANGED olVars

\* lines 213-214: while True: if self._has_service_terminated()
wait_terminated ==
    /\ pc = "wait_terminated"
    /\ calls' = Called("listTasks")
    /\ status' = service_status
    /\ pc' = IF has_service_terminated(service_status)
             THEN "log_status" ELSE "wait_terminated"
    /\ UNCHANGED <<caller, service, tasks, containers, file_contents, idx,
                   result>>
    /\ UNCHANGED cfgVars
    /\ UNCHANGED streamVars
    /\ UNCHANGED swarmVars
    /\ UNCHANGED fsVars
    /\ UNCHANGED olVars

\* lines 215-216: log the status, leave the loop
log_status ==
    /\ pc = "log_status"
    /\ calls' = Called("listTasks")
    /\ status' = service_status
    /\ pc' = "check_complete"
    /\ UNCHANGED <<caller, service, tasks, containers, file_contents, idx,
                   result>>
    /\ UNCHANGED cfgVars
    /\ UNCHANGED streamVars
    /\ UNCHANGED swarmVars
    /\ UNCHANGED fsVars
    /\ UNCHANGED olVars

\* line 225-228: what follows the harvest
AfterHarvest == IF retrieve_output THEN "retrieve" ELSE "final_status"

\* line 218: if self.service and self._service_status() == "complete"
check_complete ==
    /\ pc = "check_complete"
    /\ IF ServiceMissing
       THEN /\ pc' = AfterHarvest
            /\ UNCHANGED <<calls, status>>
       ELSE /\ calls' = Called("listTasks")
            /\ status' = service_status
            /\ pc' = IF service_status = "complete"
                     THEN "list_tasks" ELSE AfterHarvest
    /\ file_contents' = <<>>
    /\ idx' = 1
    /\ UNCHANGED <<caller, service, tasks, containers, result>>
    /\ UNCHANGED cfgVars
    /\ UNCHANGED streamVars
    /\ UNCHANGED swarmVars
    /\ UNCHANGED fsVars
    /\ UNCHANGED olVars

\* line 219: self.tasks = self.cli.tasks(...)
list_tasks ==
    /\ pc = "list_tasks"
    /\ calls' = Called("listTasks")
    /\ tasks' = cli_tasks
    /\ idx' = 1
    /\ pc' = IF cli_tasks = <<>> THEN AfterHarvest ELSE "inspect"
    /\ UNCHANGED <<caller, service, containers, file_contents, status, result>>
    /\ UNCHANGED cfgVars
    /\ UNCHANGED streamVars
    /\ UNCHANGED swarmVars
    /\ UNCHANGED fsVars
    /\ UNCHANGED olVars

\* lines 220-223: one turn of the loop over self.tasks
inspect_container ==
    /\ pc = "inspect"
    /\ IF tasks[idx].ContainerID = 0
       THEN /\ Finish(Raised("execute", "KeyError"))
            /\ UNCHANGED <<calls, containers, idx>>
       ELSE /\ calls' = Called("inspectContainer")
            /\ containers' = Append(containers,
                                    cli_inspect_container(tasks[idx].ContainerID))
            /\ idx' = IF idx = Len(tasks) THEN 1 ELSE idx + 1
            /\ pc' = IF idx = Len(tasks) THEN AfterHarvest ELSE "inspect"
            /\ UNCHANGED <<caller, result>>
    /\ UNCHANGED <<service, tasks, file_contents, status>>
    /\ UNCHANGED cfgVars
    /\ UNCHANGED streamVars
    /\ UNCHANGED swarmVars
    /\ UNCHANGED fsVars
    /\ UNCHANGED olVars

(***************************************************************************)
(* DockerSwarmOperator._attempt_to_retrieve_results                        *)
(***************************************************************************)
RetrievedValue_list(fc) == [kind |-> "list", val |-> fc]

\* lines 297-299
RetrievedValue(fc) ==
    IF Len(fc) = 1 THEN [kind |-> "single", val |-> fc]
    ELSE [kind |-> "list", val |-> fc]

attempt_to_retrieve_results_partial(copied) ==
    /\ pc = "retrieve"
    /\ IF idx > Len(containers)
       THEN /\ Leave(Returned(caller, RetrievedValue(file_contents)))
            /\ UNCHANGED <<calls, file_contents, idx>>
       ELSE /\ calls' = Called("copyFromContainer")
            /\ IF copied
               THEN /\ file_contents' = Append(file_contents, containers[idx].Id)
                    /\ idx' = idx + 1
                    /\ UNCHANGED <<pc, caller, result>>
               ELSE /\ Leave(Returned(caller, RetrievedValue(file_contents)))
                    /\ UNCHANGED <<file_contents, idx>>
    /\ UNCHANGED <<service, tasks, containers, status>>
    /\ UNCHANGED cfgVars
    /\ UNCHANGED streamVars
    /\ UNCHANGED swarmVars
    /\ UNCHANGED fsVars
    /\ UNCHANGED olVars

\* lines 292-301: one turn of the loop over self.containers, or its end;
\* _copy_from_docker returns the file of the container or raises APIError
attempt_to_retrieve_results(copied) ==
    /\ pc = "retrieve"
    /\ IF idx > Len(containers)
       THEN /\ Leave(Returned(caller, RetrievedValue(file_contents)))
            /\ UNCHANGED <<calls, file_contents, idx>>
       ELSE /\ calls' = Called("copyFromContainer")
            /\ IF copied
               THEN /\ file_contents' = Append(file_contents, containers[idx].Id)
                    /\ idx' = idx + 1
                    /\ UNCHANGED <<pc, caller, result>>
               ELSE /\ Leave(Returned(caller, ReturnNone))
                    /\ UNCHANGED <<file_contents, idx>>
    /\ UNCHANGED <<service, tasks, containers, status>>
    /\ UNCHANGED cfgVars
    /\ UNCHANGED streamVars
    /\ UNCHANGED swarmVars
    /\ UNCHANGED fsVars
    /\ UNCHANGED olVars

(***************************************************************************)
(* _run_service, lines 228-236: failure and removal                        *)
(***************************************************************************)
\* lines 229-233
final_status ==
    /\ pc = "final_status"
    /\ IF ~ServiceMissing
       THEN /\ calls' = Called("listTasks")
            /\ status' = service_status
       ELSE UNCHANGED <<calls, status>>
    /\ IF ~ServiceMissing /\ service_status # "complete"
       THEN IF auto_remove = "force"
            THEN pc' = "remove_failed" /\ UNCHANGED <<caller, result>>
            ELSE Finish(Raised("execute", "AirflowException"))
       ELSE IF auto_remove \in {"success", "force"}
            THEN pc' = "remove_service" /\ UNCHANGED <<caller, result>>
            ELSE Finish(Returned("execute", ReturnNone))
    /\ UNCHANGED <<service, tasks, containers, file_contents, idx>>
    /\ UNCHANGED cfgVars
    /\ UNCHANGED streamVars
    /\ UNCHANGED swarmVars
    /\ UNCHANGED fsVars
    /\ UNCHANGED olVars

\* lines 231-232
remove_failed ==
    /\ pc = "remove_failed"
    /\ calls' = Called("removeService")
    /\ Finish(Raised("execute", "AirflowException"))
    /\ UNCHANGED <<service, tasks, containers, file_contents, idx, status>>
    /\ UNCHANGED cfgVars
    /\ UNCHANGED streamVars
    /\ UNCHANGED swarmVars
    /\ UNCHANGED fsVars
    /\ UNCHANGED olVars

\* lines 234-236
remove_service ==
    /\ pc = "remove_service"
    /\ IF ServiceMissing
       THEN /\ Finish(Raised("execute", "RuntimeError"))
            /\ UNCHANGED calls
       ELSE /\ calls' = Called("removeService")
            /\ Finish(Returned("execute", ReturnNone))
    /\ UNCHANGED <<service, tasks, containers, file_contents, idx, status>>
    /\ UNCHANGED cfgVars
    /\ UNCHANGED streamVars
    /\ UNCHANGED swarmVars
    /\ UNCHANGED fsVars
    /\ UNCHANGED olVars

(***************************************************************************)
(* The helper methods called on their own, on an operator that is idle.    *)
(***************************************************************************)
\* lines 238-241
call_service_status ==
    /\ pc = "ready"
    /\ IF ServiceMissing
       THEN /\ result' = Raised("_service_status", "RuntimeError")
            /\ UNCHANGED <<calls, status>>
       ELSE /\ calls' = Called("listTasks")
            /\ IF cli_tasks = <<>>
               THEN /\ result' = Raised("_service_status", "IndexError")
                    /\ UNCHANGED status
               ELSE /\ status' = service_status
                    /\ result' = Returned("_service_status", ReturnNone)
    /\ UNCHANGED <<pc, caller, service, tasks, containers, file_contents, idx>>
    /\ UNCHANGED cfgVars
    /\ UNCHANGED streamVars
    /\ UNCHANGED swarmVars
    /\ UNCHANGED fsVars
    /\ UNCHANGED olVars

\* line 247
call_stream_logs_to_output ==
    /\ pc = "ready"
    /\ pc' = "stream_logs"
    /\ caller' = "_stream_logs_to_output"
    /\ result' = NoResult
    /\ UNCHANGED <<service, tasks, containers, file_contents, idx, status, calls>>
    /\ UNCHANGED cfgVars
    /\ UNCHANGED streamVars
    /\ UNCHANGED swarmVars
    /\ UNCHANGED fsVars
    /\ UNCHANGED olVars

\* lines 285-293
call_attempt_to_retrieve_results ==
    /\ pc = "ready"
    /\ pc' = "retrieve"
    /\ caller' = "_attempt_to_retrieve_results"
    /\ result' = NoResult
    /\ file_contents' = <<>>
    /\ idx' = 1
    /\ UNCHANGED <<service, tasks, containers, status, calls>>
    /\ UNCHANGED cfgVars
    /\ UNCHANGED streamVars
    /\ UNCHANGED swarmVars
    /\ UNCHANGED fsVars
    /\ UNCHANGED olVars

(***************************************************************************)
(* DockerSwarmOperator.on_kill                                             *)
(***************************************************************************)
\* self.hook.client_created: the client exists once self.cli has been used,
\* and every use of self.cli is a call
ClientCreated == calls # NoCalls

on_kill_created_only ==
    /\ pc \notin {"new", "init_failed", "killed"}
    /\ pc' = "killed"
    /\ caller' = "none"
    /\ IF ClientCreated
       THEN calls' = Called("removeService")
       ELSE UNCHANGED calls
    /\ UNCHANGED <<service, tasks, containers, file_contents, idx, status,
                   result>>
    /\ UNCHANGED cfgVars
    /\ UNCHANGED streamVars
    /\ UNCHANGED swarmVars
    /\ UNCHANGED fsVars
    /\ UNCHANGED olVars

\* lines 318-321; the task process ends after the hook
on_kill ==
    /\ pc \notin {"new", "init_failed", "killed"}
    /\ pc' = "killed"
    /\ caller' = "none"
    /\ IF ClientCreated /\ service # None
       THEN calls' = Called("removeService")
       ELSE UNCHANGED calls
    /\ UNCHANGED <<service, tasks, containers, file_contents, idx, status,
                   result>>
    /\ UNCHANGED cfgVars
    /\ UNCHANGED streamVars
    /\ UNCHANGED swarmVars
    /\ UNCHANGED fsVars
    /\ UNCHANGED olVars

(***************************************************************************)
(* DockerSwarmOperator.format_args                                         *)
(***************************************************************************)
\* a string is the sequence of its characters; an args value is None, a
\* string or a list of strings
Space == " "
SingleQuote == "'"
DoubleQuote == "\""
Backslash == "\\"
ArgChars == {"a", "-", Space, SingleQuote, DoubleQuote, Backslash}

StrArg(chars) == [kind |-> "str", val |-> chars]
ListArg(words) == [kind |-> "list", val |-> words]
ShlexError == [kind |-> "ValueError", val |-> <<>>]

\* shlex.split(s): shlex(s, posix=True) with whitespace_split, read token by
\* token.  st is the lexer state (between tokens, in a word, in single or
\* double quotes, after a backslash), esc the state a backslash returns to,
\* tok the token read so far, quoted whether the token had a quoted part.
RECURSIVE shlex_read(_, _, _, _, _, _, _)
shlex_read(s, i, st, esc, tok, quoted, words) ==
    IF i > Len(s)
    THEN CASE st = "between" -> ListArg(words)
           [] st = "word" -> IF tok # <<>> \/ quoted
                             THEN ListArg(Append(words, tok))
                             ELSE ListArg(words)
           [] OTHER -> ShlexError
    ELSE LET c == s[i] IN
         CASE st = "between" ->
                IF c = Space
                THEN shlex_read(s, i + 1, "between", esc, tok, quoted, words)
                ELSE IF c = Backslash
                THEN shlex_read(s, i + 1, "escape", "word", tok, quoted, words)
                ELSE IF c = SingleQuote
                THEN shlex_read(s, i + 1, "single", esc, tok, TRUE, words)
                ELSE IF c = DoubleQuote
                THEN shlex_read(s, i + 1, "double", esc, tok, TRUE, words)
                ELSE shlex_read(s, i + 1, "word", esc, <<c>>, quoted, words)
           [] st = "word" ->
                IF c = Space
                THEN IF tok # <<>> \/ quoted
                     THEN shlex_read(s, i + 1, "between", esc, <<>>, FALSE,
                                     Append(words, tok))
                     ELSE shlex_read(s, i + 1, "between", esc, tok, quoted, words)
                ELSE IF c = Backslash
                THEN shlex_read(s, i + 1, "escape", "word", tok, quoted, words)
                ELSE IF c = SingleQuote
                THEN shlex_read(s, i + 1, "single", esc, tok, TRUE, words)
                ELSE IF c = DoubleQuote
                THEN shlex_read(s, i + 1, "double", esc, tok, TRUE, words)
                ELSE shlex_read(s, i + 1, "word", esc, Append(tok, c), quoted, words)
           [] st = "single" ->
                IF c = SingleQuote
                THEN shlex_read(s, i + 1, "word", esc, tok, quoted, words)
                ELSE shlex_read(s, i + 1, "single", esc, Append(tok, c), quoted, words)
           [] st = "double" ->
                IF c = DoubleQuote
                THEN shlex_read(s, i + 1, "word", esc, tok, quoted, words)
                ELSE IF c = Backslash
                THEN shlex_read(s, i + 1, "escape", "double", tok, quoted, words)
                ELSE shlex_read(s, i + 1, "double", esc, Append(tok, c), quoted, words)
           [] st = "escape" ->
                IF esc = "double" /\ c # Backslash /\ c # DoubleQuote
                THEN shlex_read(s, i + 1, esc, esc, tok \o <<Backslash, c>>,
                                quoted, words)
                ELSE shlex_read(s, i + 1, esc, esc, Append(tok, c), quoted, words)

shlex_split(s) == shlex_read(s, 1, "between", "word", <<>>, FALSE, <<>>)

format_args_unsplit(a) == a

\* lines 303-316
format_args(a) == IF a.kind = "str" THEN shlex_split(a.val) ELSE a

\* format_args called on the args of an idle operator
call_format_args ==
    /\ pc = "ready"
    /\ result' = IF format_args(args) = ShlexError
                 THEN Raised("format_args", "ValueError")
                 ELSE Returned("format_args", format_args(args))
    /\ UNCHANGED <<pc, caller, service, tasks, containers, file_contents, idx,
                   status, calls>>
    /\ UNCHANGED cfgVars
    /\ UNCHANGED streamVars
    /\ UNCHANGED swarmVars
    /\ UNCHANGED fsVars
    /\ UNCHANGED olVars

(***************************************************************************)
(* CloudFirestoreHook.export_documents and the wait for its operation.     *)
(***************************************************************************)
OperationValues ==
    {Operation(d, e, r) : d \in DoneValues, e \in ErrorValues, r \in ResponseValues}

\* Python truth of a field read with dict.get: an absent field gives None,
\* false and an empty Status are falsy
FsTruthy(v) == v \notin {Absent, "false", "empty"}

\* dict.get of a field: None when the field is absent
FsGet(v) == IF v = Absent THEN None ELSE v

\* Firestore: the operation moves on until it is done
FsOperationStep(op) ==
    /\ fs_pc \in {"poll", "sleep"}
    /\ ~FsTruthy(operation.done)
    /\ op # operation
    /\ operation' = op
    /\ UNCHANGED <<fs_pc, operation_response, fs_wait, fs_result>>
    /\ UNCHANGED dockerVars
    /\ UNCHANGED olVars

\* export_documents, up to the call of _wait_for_operation_to_complete:
\* exportDocuments answers with the operation it started
export_documents(op) ==
    /\ fs_pc = "idle"
    /\ operation' = op
    /\ fs_pc' = "poll"
    /\ UNCHANGED <<operation_response, fs_wait, fs_result>>
    /\ UNCHANGED dockerVars
    /\ UNCHANGED olVars

wait_for_operation_to_complete_unchecked ==
    /\ fs_pc = "poll"
    /\ operation_response' = operation
    /\ IF FsTruthy(operation.done)
       THEN /\ fs_wait' = FsReturned("_wait_for_operation_to_complete",
                                     FsGet(operation.response))
            /\ fs_pc' = "waited"
            /\ UNCHANGED fs_result
       ELSE /\ fs_pc' = "sleep"
            /\ UNCHANGED <<fs_wait, fs_result>>
    /\ UNCHANGED operation
    /\ UNCHANGED dockerVars
    /\ UNCHANGED olVars

\* one pass of the loop of _wait_for_operation_to_complete: get the
\* operation, and end when it is done; the exception leaves export_documents
wait_for_operation_to_complete ==
    /\ fs_pc = "poll"
    /\ operation_response' = operation
    /\ IF FsTruthy(operation.done)
       THEN IF FsTruthy(operation.error)
            THEN /\ fs_wait' = FsRaised("_wait_for_operation_to_complete",
                                        "AirflowException")
                 /\ fs_result' = FsRaised("export_documents", "AirflowException")
                 /\ fs_pc' = "done"
            ELSE /\ fs_wait' = FsReturned("_wait_for_operation_to_complete",
                                          FsGet(operation.response))
                 /\ fs_pc' = "waited"
                 /\ UNCHANGED fs_result
       ELSE /\ fs_pc' = "sleep"
            /\ UNCHANGED <<fs_wait, fs_result>>
    /\ UNCHANGED operation
    /\ UNCHANGED dockerVars
    /\ UNCHANGED olVars

\* time.sleep(TIME_TO_SLEEP_IN_SECONDS), then the next pass
wait_sleep ==
    /\ fs_pc = "sleep"
    /\ fs_pc' = "poll"
    /\ UNCHANGED <<operation, operation_response, fs_wait, fs_result>>
    /\ UNCHANGED dockerVars
    /\ UNCHANGED olVars

\* export_documents ends after the wait has returned; it returns nothing
export_documents_return ==
    /\ fs_pc = "waited"
    /\ fs_result' = FsReturned("export_documents", None)
    /\ fs_pc' = "done"
    /\ UNCHANGED <<operation, operation_response, fs_wait>>
    /\ UNCHANGED dockerVars
    /\ UNCHANGED olVars

\* execute() is called again on the same instance: the fields keep what the
\* run before left in them, the locals are new, and the swarm has nothing
\* yet for the service this run is about to create
execute_again ==
    /\ pc = "done"
    /\ result.op = "execute"
    /\ calls["create"] < 2
    /\ pc' = "ready"
    /\ caller' = "none"
    /\ result' = NoResult
    /\ file_contents' = <<>>
    /\ idx' = 0
    /\ status' = None
    /\ svc_tasks' = <<>>
    /\ svc_logs' = <<>>
    /\ UNCHANGED <<service, tasks, containers, calls>>
    /\ UNCHANGED cfgVars
    /\ UNCHANGED streamVars
    /\ UNCHANGED fsVars
    /\ UNCHANGED olVars

(***************************************************************************)
(* utils.py: _truncate_string_to_byte_size                                 *)
(***************************************************************************)
\* characters whose UTF-8 encoding takes one, two, three and four bytes
DocChars == {"a", "e-acute", "euro", "g-clef"}

Utf8Width(c) ==
    CASE c = "a" -> 1
      [] c = "e-acute" -> 2
      [] c = "euro" -> 3
      [] c = "g-clef" -> 4

\* the k-th byte of the encoding of c: the first is a lead byte, the others
\* are continuation bytes
Utf8Byte(c, k) == [of |-> c, k |-> k]

\* s.encode("utf-8")
RECURSIVE utf8_encode(_)
utf8_encode(str) ==
    IF str = <<>> THEN <<>>
    ELSE [k \in 1..Utf8Width(Head(str)) |-> Utf8Byte(Head(str), k)]
             \o utf8_encode(Tail(str))

\* whether a whole character begins the bytes: a lead byte followed by all
\* of its continuation bytes
Utf8Complete(bytes) ==
    /\ bytes[1].k = 1
    /\ Len(bytes) >= Utf8Width(bytes[1].of)
    /\ \A j \in 2..Utf8Width(bytes[1].of) : bytes[j] = Utf8Byte(bytes[1].of, j)

\* bytes.decode("utf-8", errors="ignore"): a byte that begins no whole
\* character is dropped
RECURSIVE utf8_decode_ignore(_)
utf8_decode_ignore(bytes) ==
    IF bytes = <<>> THEN <<>>
    ELSE IF Utf8Complete(bytes)
         THEN <<bytes[1].of>> \o
              utf8_decode_ignore(SubSeq(bytes, Utf8Width(bytes[1].of) + 1, Len(bytes)))
         ELSE utf8_decode_ignore(Tail(bytes))

\* encoded[:max_size] for max_size >= 0
SliceTo(seq, n) == SubSeq(seq, 1, IF n < Len(seq) THEN n ELSE Len(seq))

truncate_string_to_byte_size_chars(str, n) == SliceTo(str, n)

\* lines 196-207
truncate_string_to_byte_size(str, n) ==
    IF Len(utf8_encode(str)) <= n THEN str
    ELSE utf8_decode_ignore(SliceTo(utf8_encode(str), n))

\* one call _truncate_string_to_byte_size(s, max_size)
call_truncate_string_to_byte_size ==
    /\ ol_pc = "truncate"
    /\ truncated' = [done |-> TRUE, val |-> truncate_string_to_byte_size(doc, max_size)]
    /\ ol_pc' = "idle"
    /\ UNCHANGED <<doc, max_size>>
    /\ UNCHANGED facetVars
    /\ UNCHANGED dockerVars
    /\ UNCHANGED fsVars
    /\ UNCHANGED warnVars
    /\ UNCHANGED encVars

(***************************************************************************)
(* utils.py: get_user_provided_run_facets                                  *)
(***************************************************************************)
\* what a configured function does: its path cannot be imported (ImportError,
\* try_import_from_string gives None), importing it raises another
\* Exception, the function raises an Exception, or it returns None, an
\* empty dict, a non-empty list, or a dict with the keys named
FacetFuncs == {"unimportable", "import_raises", "raises", "None", "empty",
               "list", "k1", "k2", "k1k2"}

\* line 283: facets and isinstance(facets, dict)
IsFacetDict(f) == f \in {"k1", "k2", "k1k2"}

\* the keys of the dict a function returns
KeysOf(f) ==
    CASE f = "k1" -> {"k1"}
      [] f = "k2" -> {"k2"}
      [] f = "k1k2" -> {"k1", "k2"}
      [] OTHER -> {}

dict_update_keep(d, f, i) == [k \in FacetKeys |-> IF k \in KeysOf(f) /\ d[k] = 0 THEN i ELSE d[k]]

\* line 297: custom_facets.update(facets), for the function at position i
dict_update(d, f, i) == [k \in FacetKeys |-> IF k \in KeysOf(f) THEN i ELSE d[k]]

\* lines 267-271: the call begins
get_user_provided_run_facets ==
    /\ ol_pc = "facets"
    /\ facet_i = 0
    /\ custom_facets' = NoFacets
    /\ facet_i' = 1
    /\ UNCHANGED <<ol_pc, custom_run_facets, run_facets>>
    /\ UNCHANGED truncVars
    /\ UNCHANGED dockerVars
    /\ UNCHANGED fsVars
    /\ UNCHANGED warnVars
    /\ UNCHANGED encVars

\* lines 271-304: one turn of the loop; an Exception raised by the import
\* or by the function is caught and logged, and the loop goes on
custom_facet_func ==
    /\ ol_pc = "facets"
    /\ facet_i \in 1..Len(custom_run_facets)
    /\ custom_facets' =
           IF IsFacetDict(custom_run_facets[facet_i])
           THEN dict_update(custom_facets, custom_run_facets[facet_i], facet_i)
           ELSE custom_facets
    /\ facet_i' = facet_i + 1
    /\ UNCHANGED <<ol_pc, custom_run_facets, run_facets>>
    /\ UNCHANGED truncVars
    /\ UNCHANGED dockerVars
    /\ UNCHANGED fsVars
    /\ UNCHANGED warnVars
    /\ UNCHANGED encVars

\* line 305: return custom_facets
return_custom_facets ==
    /\ ol_pc = "facets"
    /\ facet_i > Len(custom_run_facets)
    /\ run_facets' = [done |-> TRUE, exc |-> "none", val |-> custom_facets]
    /\ ol_pc' = "idle"
    /\ UNCHANGED <<custom_run_facets, custom_facets, facet_i>>
    /\ UNCHANGED truncVars
    /\ UNCHANGED dockerVars
    /\ UNCHANGED fsVars
    /\ UNCHANGED warnVars
    /\ UNCHANGED encVars

(***************************************************************************)
(* utils.py: print_warning                                                 *)
(***************************************************************************)
\* subclasses of Exception, and exceptions that derive from BaseException
\* alone
ExceptionClasses == {"Exception", "ValueError", "RuntimeError", "AirflowException"}
BaseExceptionClasses == {"KeyboardInterrupt", "SystemExit"}

\* values f may return
ReturnValues == {None, "0", "1", "x", "[]"}

FBehaviours == {Returns(v) : v \in ReturnValues}
                   \cup {Raises(e) : e \in ExceptionClasses \cup BaseExceptionClasses}

Caught_value_error(e) == e = "ValueError"

\* line 915: except Exception
Caught(e) == e \in ExceptionClasses

\* lines 912-921: one call of the wrapper
wrapper ==
    /\ ol_pc = "wrapper"
    /\ IF f_does.kind = "return"
       THEN /\ wrapper_out' = [done |-> TRUE, exc |-> "none", ret |-> f_does.val]
            /\ ol_pc' = "wrapped"
            /\ UNCHANGED warnings
       ELSE IF Caught(f_does.val)
            THEN /\ warnings' = warnings + 1
                 /\ wrapper_out' = [done |-> TRUE, exc |-> "none", ret |-> None]
                 /\ ol_pc' = "wrapped"
            ELSE /\ wrapper_out' = [done |-> TRUE, exc |-> f_does.val, ret |-> "none"]
                 /\ ol_pc' = "raised"
                 /\ UNCHANGED warnings
    /\ UNCHANGED f_does
    /\ UNCHANGED truncVars
    /\ UNCHANGED facetVars
    /\ UNCHANGED dockerVars
    /\ UNCHANGED fsVars
    /\ UNCHANGED encVars

\* the wrapper is called again, around a function that may do otherwise
call_wrapper(b) ==
    /\ ol_pc = "wrapped"
    /\ warnings < MaxWarnings
    /\ f_does' = b
    /\ ol_pc' = "wrapper"
    /\ UNCHANGED <<wrapper_out, warnings>>
    /\ UNCHANGED truncVars
    /\ UNCHANGED facetVars
    /\ UNCHANGED dockerVars
    /\ UNCHANGED fsVars
    /\ UNCHANGED encVars

(***************************************************************************)
(* utils.py: InfoJsonEncodable                                             *)
(***************************************************************************)
\* attribute names, and the type of the value the object holds under each
AttrNames == {"a", "b", "c"}
TypeOf(name) == CASE name = "a" -> "str"
                  [] name = "b" -> "datetime"
                  [] name = "c" -> "list"

\* getattr(self.obj, name), and func(self.obj) of the cast of that name
ObjValue(name) == [of |-> "attr", name |-> name, type |-> TypeOf(name), fmt |-> "raw"]
CastValue(name) == [of |-> "cast", name |-> name, type |-> "timedelta", fmt |-> "raw"]

\* a rename of attribute src to dst
Rename(src, dst) == <<src, dst>>
RenameSources == {renames[i][1] : i \in DOMAIN renames}

\* lines 397-405
cast_basic_types(value) ==
    IF value.type = "datetime" THEN [value EXCEPT !.type = "str", !.fmt = "isoformat"]
    ELSE IF value.type = "timedelta" THEN [value EXCEPT !.type = "str", !.fmt = "seconds"]
    ELSE IF value.type \in {"set", "list", "tuple"}
         THEN [value EXCEPT !.type = "str", !.fmt = "str(list)"]
    ELSE value

hasattr(object, name) == name \in object.attrs

setattr(self, name, value) ==
    [x \in DOMAIN self \cup {name} |-> IF x = name THEN value ELSE self[x]]

\* setattr for each name of a set, each with the value val gives it
setattrs(self, names, val(_)) ==
    [x \in DOMAIN self \cup names |-> IF x \in names THEN val(x) ELSE self[x]]

\* lines 413-416.  self._fields is a list; it is kept as the set of its
\* elements, which is all that lines 391-394 and the tests of lines 424 and
\* 442 use.
cast_fields ==
    /\ ol_pc = "cast"
    /\ inst' = setattrs(inst, casts, CastValue)
    /\ fields' = fields \cup casts
    /\ ol_pc' = "rename"
    /\ UNCHANGED <<clsVars, enc_out>>
    /\ UNCHANGED <<truncVars, facetVars, warnVars>>
    /\ UNCHANGED dockerVars
    /\ UNCHANGED fsVars

\* lines 407-411, from the i-th rename on
RECURSIVE rename_from(_, _)
rename_from(self, i) ==
    IF i > Len(renames) THEN self
    ELSE IF hasattr(obj, renames[i][1])
         THEN rename_from(setattr(self, renames[i][2], ObjValue(renames[i][1])), i + 1)
         ELSE rename_from(self, i + 1)

Renamed == {renames[i][2] : i \in {j \in DOMAIN renames : hasattr(obj, renames[j][1])}}

rename_fields ==
    /\ ol_pc = "rename"
    /\ inst' = rename_from(inst, 1)
    /\ fields' = fields \cup Renamed
    /\ ol_pc' = "include"
    /\ UNCHANGED <<clsVars, enc_out>>
    /\ UNCHANGED <<truncVars, facetVars, warnVars>>
    /\ UNCHANGED dockerVars
    /\ UNCHANGED fsVars

\* line 424
Included == {field \in includes : field \notin fields /\ hasattr(obj, field)}

OwnFieldTaken_renamed(field) == field \notin fields /\ field \notin excludes

\* line 442
OwnFieldTaken(field) ==
    field \notin fields /\ field \notin excludes /\ field \notin RenameSources

\* lines 428-433: the object's fields, of its __dict__ or of its attrs class
obj_fields == obj.attrs

\* lines 418-444
include_fields ==
    /\ ol_pc = "include"
    /\ IF includes # {} /\ excludes # {}
       THEN /\ enc_out' = [done |-> TRUE, exc |-> "ValueError", dict |-> NoAttrs]
            /\ ol_pc' = "enc_raised"
            /\ UNCHANGED <<inst, fields>>
       ELSE IF includes # {}
       THEN /\ inst' = setattrs(inst, Included, ObjValue)
            /\ fields' = fields \cup Included
            /\ ol_pc' = "dict"
            /\ UNCHANGED enc_out
       ELSE IF obj.kind \notin {"dict", "attrs"}
       THEN /\ enc_out' = [done |-> TRUE, exc |-> "ValueError", dict |-> NoAttrs]
            /\ ol_pc' = "enc_raised"
            /\ UNCHANGED <<inst, fields>>
       ELSE /\ inst' = setattrs(inst, {field \in obj_fields : OwnFieldTaken(field)}, ObjValue)
            /\ fields' = fields \cup {field \in obj_fields : OwnFieldTaken(field)}
            /\ ol_pc' = "dict"
            /\ UNCHANGED enc_out
    /\ UNCHANGED clsVars
    /\ UNCHANGED <<truncVars, facetVars, warnVars>>
    /\ UNCHANGED dockerVars
    /\ UNCHANGED fsVars

\* lines 391-395
dict_init ==
    /\ ol_pc = "dict"
    /\ enc_out' = [done |-> TRUE, exc |-> "none",
                   dict |-> [field \in fields |-> cast_basic_types(inst[field])]]
    /\ ol_pc' = "encoded"
    /\ UNCHANGED <<clsVars, inst, fields>>
    /\ UNCHANGED <<truncVars, facetVars, warnVars>>
    /\ UNCHANGED dockerVars
    /\ UNCHANGED fsVars

(***************************************************************************)
(* Specifications.                                                         *)
(***************************************************************************)
\* one execute() of a constructed operator, against the swarm
Next ==
    \/ \E h \in {None, ServiceID} : create_service(h)
    \/ wait_tasks
    \/ stream_logs_to_output
    \/ stream_poll
    \/ stream_new_logs
    \/ wait_terminated
    \/ log_status
    \/ check_complete
    \/ list_tasks
    \/ inspect_container
    \/ \E copied \in BOOLEAN : attempt_to_retrieve_results(copied)
    \/ final_status
    \/ remove_failed
    \/ remove_service
    \/ \E n \in 1..MaxTasks : SwarmSchedule(n)
    \/ \E i \in 1..MaxTasks, s \in TaskStates : SwarmTaskStep(i, s)
    \/ \E l \in LogLines : SwarmWriteLog(l)

Spec == Init /\ [][Next]_vars

\* construction, and the helper methods called before any execute()
NextNew ==
    \/ \E ar \in AutoRemoveModes, el \in BOOLEAN, ro \in BOOLEAN,
          ld \in LoggingDriverInputs : init(ar, el, ro, ld)
    \/ call_service_status
    \/ call_stream_logs_to_output
    \/ stream_logs_to_output
    \/ call_attempt_to_retrieve_results
    \/ \E copied \in BOOLEAN : attempt_to_retrieve_results(copied)

SpecNew == InitNew /\ [][NextNew]_vars

\* an execute() without log streaming that on_kill may cut short
InitKill == Init /\ ~enable_logging

NextKill ==
    \/ \E h \in {None, ServiceID} : create_service(h)
    \/ wait_tasks
    \/ wait_terminated
    \/ log_status
    \/ check_complete
    \/ list_tasks
    \/ inspect_container
    \/ \E copied \in BOOLEAN : attempt_to_retrieve_results(copied)
    \/ final_status
    \/ remove_failed
    \/ remove_service
    \/ \E n \in 1..MaxTasks : SwarmSchedule(n)
    \/ \E i \in 1..MaxTasks, s \in TaskStates : SwarmTaskStep(i, s)
    \/ on_kill

SpecKill == InitKill /\ [][NextKill]_vars

\* the strings of at most MaxArgLen characters, and the example of the
\* docstring-level contract, "--flag value"
FlagValue == <<"-", "-", "f", "l", "a", "g", " ", "v", "a", "l", "u", "e">>

ArgStrings == UNION {[1..n -> ArgChars] : n \in 0..MaxArgLen} \cup {FlagValue}

ArgLists == {<<>>, <<<<"a">>>>, <<<<"a", Space, "a">>, <<>>>>,
             <<<<SingleQuote>>, <<"-", "a">>>>}

ArgInputs == {ReturnNone} \cup {StrArg(x) : x \in ArgStrings}
                          \cup {ListArg(w) : w \in ArgLists}

\* format_args on an operator constructed with any of the args values
InitArgs ==
    /\ pc = "ready"
    /\ caller = "none"
    /\ auto_remove = "never"
    /\ enable_logging = TRUE
    /\ retrieve_output = FALSE
    /\ logging_driver = None
    /\ log_driver_config = None
    /\ args \in ArgInputs
    /\ service = None
    /\ tasks = <<>>
    /\ containers = <<>>
    /\ last_line_logged = NoLine
    /\ last_timestamp = 0
    /\ file_contents = <<>>
    /\ idx = 0
    /\ status = None
    /\ result = Returned("__init__", ReturnNone)
    /\ calls = NoCalls
    /\ logged = <<>>
    /\ svc_tasks = <<>>
    /\ svc_logs = <<>>
    /\ FsInit
    /\ OlInit

NextArgs == call_format_args

SpecArgs == InitArgs /\ [][NextArgs]_vars

\* one export_documents of CloudFirestoreHook against Firestore
NextFirestore ==
    \/ \E op \in OperationValues : export_documents(op)
    \/ wait_for_operation_to_complete
    \/ wait_sleep
    \/ export_documents_return
    \/ \E op \in OperationValues : FsOperationStep(op)

SpecFirestore == InitNew /\ [][NextFirestore]_vars

\* the log-streaming phase of an execute() whose service has one task
InitStream == Init /\ enable_logging /\ ~retrieve_output /\ auto_remove = "never"

NextStream ==
    \/ create_service(ServiceID)
    \/ wait_tasks
    \/ stream_logs_to_output
    \/ stream_poll
    \/ stream_new_logs
    \/ SwarmSchedule(1)
    \/ \E s \in TaskStates : SwarmTaskStep(1, s)
    \/ \E l \in StreamLines : SwarmWriteLog(l)

SpecStream == InitStream /\ [][NextStream]_vars

\* the steps of execute(): the operator's own code
RunStep ==
    \/ \E h \in {None, ServiceID} : create_service(h)
    \/ wait_tasks
    \/ stream_logs_to_output
    \/ stream_poll
    \/ stream_new_logs
    \/ wait_terminated
    \/ log_status
    \/ check_complete
    \/ list_tasks
    \/ inspect_container
    \/ \E copied \in BOOLEAN : attempt_to_retrieve_results(copied)
    \/ final_status
    \/ remove_failed
    \/ remove_service

\* a running task writes a line that differs from every line written so far
SwarmWriteNewLog(l) ==
    /\ \A i \in 1..Len(svc_logs) : svc_logs[i].line # l
    /\ SwarmWriteLog(l)

\* one execute() that is never suspended for good: the operator's code keeps
\* being scheduled, the swarm moves as it likes
NextLive ==
    \/ RunStep
    \/ \E n \in 1..MaxTasks : SwarmSchedule(n)
    \/ \E i \in 1..MaxTasks, s \in TaskStates : SwarmTaskStep(i, s)
    \/ \E l \in LogLines : SwarmWriteNewLog(l)

\* the operator that removes its service whatever the outcome
InitLive == Init /\ auto_remove = "force"

SpecLive == InitLive /\ [][NextLive]_vars /\ WF_vars(RunStep)

\* two execute() calls in a row on one instance, without log streaming
InitAgain == Init /\ ~enable_logging /\ auto_remove = "never"

NextAgain ==
    \/ \E h \in {None, ServiceID} : create_service(h)
    \/ wait_tasks
    \/ wait_terminated
    \/ log_status
    \/ check_complete
    \/ list_tasks
    \/ inspect_container
    \/ \E copied \in BOOLEAN : attempt_to_retrieve_results(copied)
    \/ final_status
    \/ \E n \in 1..MaxTasks : SwarmSchedule(n)
    \/ \E i \in 1..MaxTasks, s \in TaskStates : SwarmTaskStep(i, s)
    \/ execute_again

SpecAgain == InitAgain /\ [][NextAgain]_vars

\* the strings of at most MaxDocLen characters and the limits up to MaxSize
Docs == UNION {[1..n -> DocChars] : n \in 0..MaxDocLen}

InitTruncate ==
    /\ OperatorNew
    /\ FsInit
    /\ ol_pc = "truncate"
    /\ doc \in Docs
    /\ max_size \in 0..MaxSize
    /\ truncated = NotTruncated
    /\ FacetInit
    /\ WarnInit
    /\ EncInit

NextTruncate == call_truncate_string_to_byte_size

SpecTruncate == InitTruncate /\ [][NextTruncate]_vars

\* the lists of at most MaxFuncs configured functions
InitFacets ==
    /\ OperatorNew
    /\ FsInit
    /\ ol_pc = "facets"
    /\ TruncInit
    /\ custom_run_facets \in UNION {[1..n -> FacetFuncs] : n \in 0..MaxFuncs}
    /\ custom_facets = NoFacets
    /\ facet_i = 0
    /\ run_facets = FacetsNotReturned
    /\ WarnInit
    /\ EncInit

NextFacets ==
    \/ get_user_provided_run_facets
    \/ custom_facet_func
    \/ return_custom_facets

SpecFacets == InitFacets /\ [][NextFacets]_vars

\* calls of a function decorated with print_warning(log)
InitWarning ==
    /\ OperatorNew
    /\ FsInit
    /\ ol_pc = "wrapper"
    /\ TruncInit
    /\ FacetInit
    /\ f_does \in FBehaviours
    /\ wrapper_out = WrapperNotCalled
    /\ warnings = 0
    /\ EncInit

NextWarning ==
    \/ wrapper
    \/ \E b \in FBehaviours : call_wrapper(b)

SpecWarning == InitWarning /\ [][NextWarning]_vars

\* InfoJsonEncodable subclasses and the objects given to them
CastSets == SUBSET {"a", "b"}
RenameDicts == {<<>>, <<Rename("a", "b")>>, <<Rename("b", "a")>>, <<Rename("a", "a")>>,
                <<Rename("a", "b"), Rename("b", "c")>>,
                <<Rename("a", "c"), Rename("b", "c")>>}
ObjKinds == {"dict", "attrs", "neither"}

InitEncode ==
    /\ OperatorNew
    /\ FsInit
    /\ ol_pc = "cast"
    /\ TruncInit
    /\ FacetInit
    /\ WarnInit
    /\ casts \in CastSets
    /\ renames \in RenameDicts
    /\ includes \in SUBSET AttrNames
    /\ excludes \in SUBSET AttrNames
    /\ obj \in [kind : ObjKinds, attrs : SUBSET AttrNames]
    /\ inst = NoAttrs
    /\ fields = {}
    /\ enc_out = NotEncoded

NextEncode ==
    \/ cast_fields
    \/ rename_fields
    \/ include_fields
    \/ dict_init

SpecEncode == InitEncode /\ [][NextEncode]_vars

(***************************************************************************)
(* Properties.                                                             *)
(***************************************************************************)
Ended == pc = "done" /\ result.op = "execute"

RemoveCalls == calls["removeService"]

\* C1: a run whose service was observed in a terminal state other than
\* "complete" ends by raising the task-failure error (AirflowException),
\* whatever auto_remove, enable_logging and retrieve_output are.
C1_NonCompleteRaises ==
    (Ended /\ status \in {"failed", "shutdown", "rejected", "orphaned", "remove"})
        => result.exc = "AirflowException"

\* C2: with auto_remove = "force", a run that obtained a service handle has
\* called removeService by the time it ends, however it ends.
C2_ForceNeverLeaks ==
    (Ended /\ auto_remove = "force" /\ service # None) => RemoveCalls >= 1

\* C3: a service that reaches "complete" (all of its tasks complete) with
\* auto_remove = "force" is removed exactly once, after every listed task
\* was resolved to a container.
C3_CompleteForceRemovedOnce ==
    (Ended /\ auto_remove = "force" /\ status = "complete"
           /\ \A i \in 1..Len(svc_tasks) : svc_tasks[i] = "complete")
        => /\ RemoveCalls = 1
           /\ Len(containers) = Len(svc_tasks)

\* C4: a service that reaches "failed" with auto_remove = "never" is never
\* removed, and the run raises the task-failure error.
C4_FailedNeverKept ==
    (Ended /\ auto_remove = "never" /\ status = "failed")
        => /\ RemoveCalls = 0
           /\ result.exc = "AirflowException"

\* C5: a service that reaches "failed" with auto_remove = "force" is removed
\* exactly once, and the run still raises the task-failure error.
C5_FailedForceRemoved ==
    (Ended /\ auto_remove = "force" /\ status = "failed")
        => /\ RemoveCalls = 1
           /\ result.exc = "AirflowException"

\* C6: with auto_remove = "success", a run whose service reaches "complete"
\* has removed it exactly once when it returns, and a run whose service
\* reaches another terminal state never removes it.
C6_SuccessRemovesOnComplete ==
    (Ended /\ auto_remove = "success")
        => /\ (status = "complete" /\ result.exc = "none") => RemoveCalls = 1
           /\ status \in {"failed", "shutdown", "rejected", "orphaned", "remove"}
                  => RemoveCalls = 0

\* C7 as stated: the wait for the terminal state ends on a poll that reports
\* one of complete, failed, shutdown, rejected, orphaned, removed, and on no
\* other.
C7_Original ==
    /\ pc = "log_status"
          => status \in {"complete", "failed", "shutdown", "rejected",
                         "orphaned", "removed"}
    /\ pc = "stream_fetch"
          => status \notin {"complete", "failed", "shutdown", "rejected",
                            "orphaned", "removed"}

\* C7 as amended: a poll of the terminal-state wait, and a poll of the log
\* streaming loop, ends the wait exactly when the state it reports is one of
\* complete, failed, shutdown, rejected, orphaned, remove; on pending,
\* running and removed the wait goes on.
C7_WaitEndsOnTerminated ==
    [][ /\ wait_terminated
           => (pc' = "log_status" <=>
                 status' \in {"complete", "failed", "shutdown", "rejected",
                              "orphaned", "remove"})
        /\ stream_poll
           => (pc' = "wait_terminated" <=>
                 status' \in {"complete", "failed", "shutdown", "rejected",
                              "orphaned", "remove"}) ]_vars

C7_Witness == pc = "log_status" /\ status = "remove"

HelperOps == {"_service_status", "_stream_logs_to_output",
              "_attempt_to_retrieve_results"}

C10_CreateFirstAndFatal ==
    /\ pc = "ready" => calls = NoCalls
    /\ pc # "ready" => calls["create"] = 1
    /\ (pc # "ready" /\ service = None)
        => /\ pc = "done"
           /\ result = Raised("execute", "RuntimeError")
           /\ calls = [NoCalls EXCEPT !["create"] = 1]

C10_Witness ==
    /\ pc = "done"
    /\ service = None
    /\ result.exc = "RuntimeError"
    /\ calls["create"] = 1

\* the files of the harvested containers, in the order of the harvest
HarvestedFiles == [i \in 1..Len(containers) |-> containers[i].Id]

\* C11: a run with result retrieval in which no copy failed returns the one
\* copied value itself when exactly one container was harvested, and
\* otherwise the list of the copied values in the order of the harvest.
C11_SingleValueOrOrderedList ==
    (Ended /\ retrieve_output /\ result.exc = "none" /\ result.ret # ReturnNone)
        => result.ret = [kind |-> IF Len(containers) = 1 THEN "single" ELSE "list",
                         val |-> HarvestedFiles]

C11_Witness ==
    /\ Ended
    /\ retrieve_output
    /\ Len(containers) = 2
    /\ result.ret = [kind |-> "list", val |-> <<1, 2>>]

C13_KillRemovesIffClientAndService ==
    [][ (pc # "killed" /\ pc' = "killed")
        => IF ClientCreated /\ service # None
           THEN /\ calls'["removeService"] = IF RemoveCalls = 0 THEN 1 ELSE 2
                /\ \A o \in Operations \ {"removeService"} : calls'[o] = calls[o]
           ELSE calls' = calls ]_vars

C13_Witness ==
    /\ pc = "killed"
    /\ service = ServiceID
    /\ status = "running"
    /\ RemoveCalls = 1

\* C14: containers are harvested if and only if the terminal state observed
\* is "complete": then every listed task has been resolved by one
\* inspectContainer call, in list order, and otherwise inspectContainer was
\* never called and nothing was harvested.
C14_HarvestIffComplete ==
    Ended
        => IF status = "complete"
           THEN /\ Len(containers) = Len(tasks)
                /\ Len(tasks) = Len(svc_tasks)
                /\ \A i \in 1..Len(tasks) : containers[i].Id = tasks[i].ContainerID
                /\ calls["inspectContainer"] = IF Len(tasks) = 1 THEN 1 ELSE 2
           ELSE /\ containers = <<>>
                /\ calls["inspectContainer"] = 0

\* the characters of a string that are not blanks, in order
RECURSIVE NonBlank(_)
NonBlank(x) ==
    IF x = <<>> THEN <<>>
    ELSE IF x[1] = Space THEN NonBlank(Tail(x)) ELSE <<x[1]>> \o NonBlank(Tail(x))

RECURSIVE Concat(_)
Concat(w) == IF w = <<>> THEN <<>> ELSE w[1] \o Concat(Tail(w))

Plain(x) == \A i \in 1..Len(x) : x[i] \notin {SingleQuote, DoubleQuote, Backslash}

\* C15: format_args returns None for None and a list unchanged; a string is
\* split into shell words: without quoting characters the words are the
\* non-empty maximal runs of non-blank characters ("--flag value" gives
\* "--flag", "value"), a quoted part keeps its blanks, and an unclosed quote
\* or a trailing backslash is an error; normalizing the result again
\* changes nothing.
C15_FormatArgs ==
    result.op = "format_args"
        => /\ args.kind # "str"
                => result = Returned("format_args", args)
           /\ (args.kind = "str" /\ Plain(args.val))
                => /\ result.exc = "none"
                   /\ result.ret.kind = "list"
                   /\ Concat(result.ret.val) = NonBlank(args.val)
                   /\ \A k \in 1..Len(result.ret.val) :
                         /\ result.ret.val[k] # <<>>
                         /\ \A j \in 1..Len(result.ret.val[k]) :
                               result.ret.val[k][j] # Space
                   /\ Len(result.ret.val) <= 1
                         \/ \E i \in 1..Len(args.val) : args.val[i] = Space
           /\ args = StrArg(FlagValue)
                => result.ret = ListArg(<< <<"-", "-", "f", "l", "a", "g">>,
                                           <<"v", "a", "l", "u", "e">> >>)
           /\ args = StrArg(<<"a", Space, "a">>)
                => result.ret = ListArg(<< <<"a">>, <<"a">> >>)
           /\ args = StrArg(<<SingleQuote, Space, SingleQuote>>)
                => result.ret = ListArg(<< <<Space>> >>)
           /\ args = StrArg(<<DoubleQuote, Backslash, "a">>)
                => result.exc = "ValueError"
           /\ args = StrArg(<<Backslash, Space, "a">>)
                => result.ret = ListArg(<< <<Space, "a">> >>)
           /\ args = StrArg(<<SingleQuote, SingleQuote>>)
                => result.ret = ListArg(<< <<>> >>)
           /\ result.exc = "none"
                => /\ result.ret.kind = args.kind \/ args.kind = "str"
                   /\ format_args(result.ret) = result.ret

C15_Witness ==
    /\ args = StrArg(FlagValue)
    /\ result.op = "format_args"
    /\ Len(result.ret.val) = 2

\* C16: _wait_for_operation_to_complete ends only after a poll that reported
\* done = true and is still in its loop after a poll without it; it raises
\* AirflowException when that poll carries an error and returns the
\* response otherwise, never normally with an error; export_documents ends
\* only after the wait has ended, and fails when the wait fails.
C16_WaitUntilDone ==
    /\ fs_wait.op # "none" => operation_response.done = "true"
    /\ (fs_pc # "idle" /\ operation_response.done # "true")
           => (fs_pc \in {"poll", "sleep"} /\ fs_wait = FsNoResult)
    /\ fs_wait.op # "none"
           => IF operation_response.error = "status"
              THEN fs_wait.exc = "AirflowException"
              ELSE /\ fs_wait.exc = "none"
                   /\ fs_wait.ret = FsGet(operation_response.response)
    /\ fs_result.op # "none"
           => (fs_wait.op # "none" /\ fs_result.exc = fs_wait.exc)

C16_Witness ==
    /\ fs_pc = "done"
    /\ fs_result = FsRaised("export_documents", "AirflowException")
    /\ operation_response = Operation("true", "status", "response")

\* one stream_new_logs has been made
Polled == pc = "stream_fetch" /\ pc' # "stream_fetch"

\* the batch a poll fetches
Batch == cli_service_logs(last_timestamp)

\* the lines of a batch that follow the first line equal to the marker, and
\* the whole batch when no line is equal to it
AfterMarker(batch, marker) ==
    IF \E k \in 1..Len(batch) : batch[k] = marker
    THEN LET k == CHOOSE k \in 1..Len(batch) :
                      /\ batch[k] = marker
                      /\ \A j \in 1..(k - 1) : batch[j] # marker
         IN [i \in 1..(Len(batch) - k) |-> batch[k + i]]
    ELSE batch

WellFormed(line) == line.stamped /\ Len(line.frac) >= MicroDigits

\* the lines of a batch before its first malformed line
RECURSIVE BeforeMalformed(_)
BeforeMalformed(lines) ==
    IF lines = <<>> \/ ~WellFormed(Head(lines)) THEN <<>>
    ELSE <<Head(lines)>> \o BeforeMalformed(Tail(lines))

\* C17: once a line has been emitted, the marker is the last line emitted,
\* and a poll emits the lines of its batch that follow the marker, or the
\* whole batch when the marker is not in it; a batch that begins with the
\* marker is emitted without its first line.
C17_Deduplication ==
    [][ (Polled /\ logged # <<>>)
        => /\ last_line_logged.msg = logged[Len(logged)]
           /\ logged' = logged \o
                  Messages(BeforeMalformed(AfterMarker(Batch, last_line_logged)))
           /\ (Batch # <<>> /\ Batch[1] = last_line_logged)
                  => logged' = logged \o Messages(BeforeMalformed(Tail(Batch)))
           /\ (\A k \in 1..Len(Batch) : Batch[k] # last_line_logged)
                  => logged' = logged \o Messages(BeforeMalformed(Batch)) ]_vars

C17_Witness ==
    /\ pc = "stream_poll"
    /\ logged = <<"b", "e">>
    /\ calls["streamLogs"] = 2
    /\ Lines(svc_logs) = <<Line(TRUE, <<0, 0, 0, 0, 0, 1>>, "b"),
                           Line(TRUE, <<0, 0, 0, 0, 0, 2, 0>>, "e")>>

\* C18: a poll whose batch has no line after de-duplication leaves cursor
\* and marker as they were; the cursor is 0 and the marker empty when the
\* streaming begins, and nothing but a poll changes them afterwards, so the
\* first fetch uses cursor 0 and a later one the cursor of the poll before.
C18_NoNewLinesKeepsCursor ==
    [][ /\ (Polled /\ AfterMarker(Batch, last_line_logged) = <<>>)
            => /\ UNCHANGED <<last_timestamp, last_line_logged, logged>>
               /\ pc' = "stream_poll"
        /\ (pc = "stream_logs" /\ pc' = "stream_poll")
            => (last_timestamp' = 0 /\ last_line_logged' = NoLine)
        /\ (pc = "stream_fetch" /\ calls["streamLogs"] = 0)
            => last_timestamp = 0
        /\ pc \in {"stream_poll", "wait_terminated"}
            => UNCHANGED <<last_timestamp, last_line_logged>> ]_vars

C18_Witness ==
    /\ pc = "stream_poll"
    /\ calls["streamLogs"] = 2
    /\ Lines(svc_logs) = <<Line(TRUE, <<0, 0, 0, 0, 0, 1, 9, 9, 9>>, "c")>>
    /\ logged = <<"c">>
    /\ last_timestamp = 1

C20_MalformedLineFails ==
    [][ (Polled /\ \E k \in 1..Len(Batch) : ~WellFormed(Batch[k]))
        => /\ result'.exc = "AttributeError"
           /\ UNCHANGED <<last_timestamp, last_line_logged>> ]_vars

\* the swarm reports a task, and the state the operator polls is terminal
ServiceTerminal == svc_tasks # <<>> /\ svc_tasks[1] \in TerminatedStates

\* C21: when the swarm comes to report a task for the service and the
\* polled state comes to stay terminal, execute() ends, with a value or an
\* exception, whether logs are streamed or not; and the terminal-state wait
\* is left only on a poll that reported a terminal state, never on pending
\* or running.
C21_RunEnds ==
    /\ (<>[]ServiceTerminal) => <>Ended
    /\ [][ (pc = "wait_terminated" /\ pc' # "wait_terminated")
           => status' \notin {"pending", "running"} ]_vars

C21_Witness ==
    /\ Ended
    /\ enable_logging
    /\ ServiceTerminal
    /\ svc_logs # <<>>
    /\ result.exc = "AirflowException"

\* every task of the service is in a state the swarm never leaves
AllTasksTerminal == \A i \in 1..Len(svc_tasks) : svc_tasks[i] \in SwarmFinalStates

\* C22: the run leaves the terminal-state wait, and resolves containers,
\* only when every task of the service is in a terminal state.
C22_AllTasksTerminated ==
    [][ /\ (pc = "wait_terminated" /\ pc' # "wait_terminated") => AllTasksTerminal
        /\ calls'["inspectContainer"] # calls["inspectContainer"] => AllTasksTerminal
      ]_vars

\* C23: whatever the interleaving of one execute() and one on_kill,
\* removeService is called at most once for the service of the run.
C23_RemovedAtMostOnce == RemoveCalls <= 1

\* C24: a run that ends normally on the state 'complete' leaves in
\* self.containers one record per task of that service, in task order, and
\* what it retrieves has one file per task; nothing of an earlier run is
\* left in either.
C24_OwnContainersOnly ==
    (Ended /\ result.exc = "none" /\ status = "complete")
        => /\ Len(containers) = Len(svc_tasks)
           /\ \A i \in 1..Len(containers) : containers[i].Id = TaskRecord(i).ContainerID
           /\ (retrieve_output /\ result.ret # ReturnNone)
                  => Len(result.ret.val) = Len(svc_tasks)

\* the messages the sink has received
Emitted == {logged[i] : i \in 1..Len(logged)}

\* C25: with logging enabled, when the run ends (on a terminal state, with
\* no log line that failed to parse) every well-formed line the service
\* wrote has been emitted at least once.
C25_EveryLineEmitted ==
    (Ended /\ enable_logging /\ result.exc \in {"none", "AirflowException"}
           /\ status \in TerminatedStates)
        => \A i \in 1..Len(svc_logs) :
               WellFormed(svc_logs[i].line) => svc_logs[i].line.msg \in Emitted

\* how often x occurs in a sequence
Occurrences(seq, x) == Cardinality({i \in 1..Len(seq) : seq[i] = x})

\* C26: over the polls of a run, no line is emitted more often than the
\* service wrote it, two identical lines in the log included.
C26_NoLineEmittedTwice ==
    \A l \in StreamLines :
        Occurrences(logged, l.msg) <= Occurrences(Lines(svc_logs), l)

\* the number of bytes of the UTF-8 encoding of a string
RECURSIVE ByteSize(_)
ByteSize(str) == IF str = <<>> THEN 0 ELSE Utf8Width(Head(str)) + ByteSize(Tail(str))

\* the longest prefix of a string whose encoding takes at most n bytes
LongestPrefix(str, n) ==
    LET k == CHOOSE k \in 0..Len(str) :
                 /\ ByteSize(SubSeq(str, 1, k)) <= n
                 /\ \A j \in (k + 1)..Len(str) : ByteSize(SubSeq(str, 1, j)) > n
    IN SubSeq(str, 1, k)

\* C28: the result is the string itself when its encoding fits the limit,
\* and otherwise its longest prefix of whole characters whose encoding
\* fits; its encoding never exceeds the limit and is the beginning of the
\* encoding of the string, and truncating the result again changes nothing.
C28_TruncateToByteSize ==
    truncated.done
        => /\ ByteSize(doc) <= max_size => truncated.val = doc
           /\ ByteSize(doc) > max_size => truncated.val = LongestPrefix(doc, max_size)
           /\ ByteSize(truncated.val) <= max_size
           /\ utf8_encode(truncated.val)
                  = SubSeq(utf8_encode(doc), 1, ByteSize(truncated.val))
           /\ truncate_string_to_byte_size(truncated.val, max_size) = truncated.val

C28_Witness ==
    /\ truncated.done
    /\ doc = <<"a", "euro", "g-clef">>
    /\ max_size = 3
    /\ truncated.val = <<"a">>

\* the positions of the configured functions that return a dict with key k
Returning(k) ==
    {i \in 1..Len(custom_run_facets) : custom_run_facets[i] \in {k, "k1k2"}}

\* C27: the call returns, with no exception, the union of the dicts that
\* the configured functions returned: a key is in the result exactly when
\* some function returned it, with the value of the latest such function;
\* functions that cannot be imported, raise, or return something empty or
\* not a dict add nothing and stop nothing.
C27_UserFacetsMerged ==
    /\ ol_pc = "idle" => (run_facets.done /\ run_facets.exc = "none")
    /\ run_facets.done
           => \A k \in FacetKeys :
                  /\ (Returning(k) = {}) => run_facets.val[k] = 0
                  /\ (Returning(k) # {})
                         => /\ run_facets.val[k] \in Returning(k)
                            /\ \A i \in Returning(k) : i <= run_facets.val[k]

C27_Witness ==
    /\ run_facets.done
    /\ custom_run_facets = <<"k1k2", "raises", "k1">>
    /\ run_facets.val = [k \in FacetKeys |-> IF k = "k1" THEN 3 ELSE 1]

\* C29: a call of the wrapper propagates no Exception: when f raises one,
\* one warning is logged and None is returned; when f returns, its value is
\* returned as it is and nothing is logged.
C29_WrapperSwallowsException ==
    [][ (ol_pc = "wrapper" /\ ol_pc' # "wrapper")
        => /\ wrapper_out'.exc \notin ExceptionClasses
           /\ (f_does.kind = "raise" /\ f_does.val \in ExceptionClasses)
                  => /\ wrapper_out' = [done |-> TRUE, exc |-> "none", ret |-> None]
                     /\ warnings' = warnings + 1
           /\ f_does.kind = "return"
                  => /\ wrapper_out' = [done |-> TRUE, exc |-> "none", ret |-> f_does.val]
                     /\ warnings' = warnings ]_vars

C29_Witness ==
    /\ ol_pc = "wrapped"
    /\ f_does = Raises("RuntimeError")
    /\ wrapper_out = [done |-> TRUE, exc |-> "none", ret |-> None]
    /\ warnings = 2

\* the value the casts and the renames of the class give a field: the
\* attribute of the last rename to it whose source the object has, else the
\* value of its cast
LastRename(name) ==
    CHOOSE i \in DOMAIN renames :
        /\ renames[i][2] = name /\ hasattr(obj, renames[i][1])
        /\ \A j \in DOMAIN renames :
               (renames[j][2] = name /\ hasattr(obj, renames[j][1])) => j <= i
CastOrRenamed == casts \cup Renamed
FieldValue(name) ==
    IF name \in Renamed THEN ObjValue(renames[LastRename(name)][1]) ELSE CastValue(name)

====
